---------------------------- MODULE Spec2Model ----------------------------
(***************************************************************************)
(* mindcrank: a Monte Carlo simulation of how fast a deck draws into its   *)
(* combo.  The module models src/main.go: the per-trial seed derivation    *)
(* (simSeed), deck construction and shuffling (createDeck, shuffleDeck),   *)
(* the trial runner (runSimulation, checkComboWin), the configuration      *)
(* check (validateConfig) and the worker pool of runScenario.              *)
(***************************************************************************)
EXTENDS Integers, Sequences, FiniteSets, TLC

(***************************************************************************)
(* Bounds of the model.                                                    *)
(***************************************************************************)
\* largest deckSize explored
MaxDeck == 9
\* largest number of trials (cfg.runs) of one runScenario call
MaxRuns == 3
\* largest worker pool (runtime.NumCPU())
MaxWorkers == 2
\* capacity of the output channel, scaled down from 10_000 (main.go:104) so
\* that MaxRuns trials overfill the jobs and output channels together
OutputCap == 1

\* the opening hand: deck[:7], deck[7:]
HandSize == 7

(***************************************************************************)
(* 64-bit unsigned arithmetic.  A uint64 is a sequence of 8 bytes, least   *)
(* significant first; every operation wraps modulo 2^64 as Go's does.      *)
(***************************************************************************)
Bytes == 8

RECURSIVE natBytes(_, _)
\* the n low bytes of the natural number v
natBytes(v, n) ==
    IF n = 0 THEN <<>> ELSE <<v % 256>> \o natBytes(v \div 256, n - 1)

RECURSIVE notBytes(_, _)
\* the n low bytes of the bitwise complement of the natural number v
notBytes(v, n) ==
    IF n = 0 THEN <<>> ELSE <<255 - (v % 256)>> \o notBytes(v \div 256, n - 1)

\* uint64(v) for a Go integer v: two's complement for a negative v
toU64(v) ==
    IF v >= 0 THEN natBytes(v, Bytes) ELSE notBytes(-v - 1, Bytes)

RECURSIVE addFrom(_, _, _, _)
addFrom(x, y, k, carry) ==
    IF k > Bytes THEN <<>>
    ELSE LET s == x[k] + y[k] + carry
         IN  <<s % 256>> \o addFrom(x, y, k + 1, s \div 256)

\* x + y (mod 2^64)
addU64(x, y) == addFrom(x, y, 1, 0)

RECURSIVE mulColumn(_, _, _, _)
\* sum of x[a] * y[k+1-a] for a in 1..a
mulColumn(x, y, k, a) ==
    IF a = 0 THEN 0 ELSE x[a] * y[k + 1 - a] + mulColumn(x, y, k, a - 1)

RECURSIVE mulFrom(_, _, _, _)
mulFrom(x, y, k, carry) ==
    IF k > Bytes THEN <<>>
    ELSE LET s == mulColumn(x, y, k, k) + carry
         IN  <<s % 256>> \o mulFrom(x, y, k + 1, s \div 256)

\* x * y (mod 2^64)
mulU64(x, y) == mulFrom(x, y, 1, 0)

RECURSIVE xorBits(_, _, _)
xorBits(a, b, n) ==
    IF n = 0 THEN 0
    ELSE ((a + b) % 2) + 2 * xorBits(a \div 2, b \div 2, n - 1)

RECURSIVE xorFrom(_, _, _)
xorFrom(x, y, k) ==
    IF k > Bytes THEN <<>>
    ELSE <<xorBits(x[k], y[k], 8)>> \o xorFrom(x, y, k + 1)

\* x ^ y
xorU64(x, y) == xorFrom(x, y, 1)

RECURSIVE pow2(_)
pow2(n) == IF n = 0 THEN 1 ELSE 2 * pow2(n - 1)

RECURSIVE shrFrom(_, _, _, _)
\* the bytes of x >> (8 * q + r) from byte k on
shrFrom(x, q, r, k) ==
    LET byte(j) == IF j <= Bytes THEN x[j] ELSE 0
    IN  IF k > Bytes THEN <<>>
        ELSE <<(byte(k + q) \div pow2(r))
                   + (byte(k + q + 1) % pow2(r)) * pow2(8 - r)>>
             \o shrFrom(x, q, r, k + 1)

\* x >> n, for 0 <= n < 64
shrU64(x, n) == shrFrom(x, n \div 8, n % 8, 1)

\* 0x9e3779b97f4a7c15
Golden == <<21, 124, 74, 127, 185, 121, 55, 158>>
\* 0xbf58476d1ce4e5b9
Mix1 == <<185, 229, 228, 28, 109, 71, 88, 191>>
\* 0x94d049bb133111eb
Mix2 == <<235, 17, 49, 19, 187, 73, 208, 148>>

\* simSeed with `x >> 30` for `x ^ (x >> 30)` in the first mixing step
simSeedShiftOnly(baseSeed, simIndex) ==
    LET x0 == addU64(addU64(toU64(baseSeed), toU64(simIndex)), Golden)
        x1 == mulU64(shrU64(x0, 30), Mix1)
        x2 == mulU64(xorU64(x1, shrU64(x1, 27)), Mix2)
    IN  xorU64(x2, shrU64(x2, 31))

\* simSeed with uint64(baseSeed) ^ uint64(simIndex) for their sum
simSeedXorIndex(baseSeed, simIndex) ==
    LET x0 == addU64(xorU64(toU64(baseSeed), toU64(simIndex)), Golden)
        x1 == mulU64(xorU64(x0, shrU64(x0, 30)), Mix1)
        x2 == mulU64(xorU64(x1, shrU64(x1, 27)), Mix2)
    IN  xorU64(x2, shrU64(x2, 31))

\* simSeed(baseSeed, simIndex): the bit pattern of the derived int64 seed
simSeed(baseSeed, simIndex) ==
    LET x0 == addU64(addU64(toU64(baseSeed), toU64(simIndex)), Golden)
        x1 == mulU64(xorU64(x0, shrU64(x0, 30)), Mix1)
        x2 == mulU64(xorU64(x1, shrU64(x1, 27)), Mix2)
    IN  xorU64(x2, shrU64(x2, 31))


(***************************************************************************)
(* Cards, decks and configurations.                                        *)
(***************************************************************************)
\* Card{keyword: "land"}
LandCard == [keyword |-> "land", combo |-> FALSE]
\* Card{keyword: "non-land", combo: false}
PlainCard == [keyword |-> "non-land", combo |-> FALSE]
\* Card{keyword: "non-land", combo: true}
ComboCard == [keyword |-> "non-land", combo |-> TRUE]

\* type Config
Config(deckSize, lands, combos, required, runs, seed) ==
    [deckSize |-> deckSize, lands |-> lands, combos |-> combos,
     required |-> required, runs |-> runs, seed |-> seed]

\* type Simulation
Simulation(draws, openingWin, openingLands) ==
    [drawsToWinCon |-> draws, openingHandWin |-> openingWin,
     openingHandLands |-> openingLands]

\* for i := 0; i < n; i++ { deck = append(deck, card) }
appendCards(cards, card, n) ==
    cards \o [k \in 1..(IF n > 0 THEN n ELSE 0) |-> card]

\* buildDeck with the second loop running to numNonLands, the combo pieces
\* not taken off the plain non-lands
buildDeckNoComboRoom(c) ==
    LET numLands == c.lands
        numNonLands == c.deckSize - numLands
        numComboPieces == c.combos
        d1 == appendCards(<<>>, LandCard, numLands)
        d2 == appendCards(d1, PlainCard, numNonLands)
    IN  appendCards(d2, ComboCard, numComboPieces)

\* createDeck before the shuffle: lands, then plain non-lands, then combos
buildDeck(c) ==
    LET numLands == c.lands
        numNonLands == c.deckSize - numLands
        numComboPieces == c.combos
        d1 == appendCards(<<>>, LandCard, numLands)
        d2 == appendCards(d1, PlainCard, numNonLands - numComboPieces)
    IN  appendCards(d2, ComboCard, numComboPieces)

\* deck[i], deck[j] = deck[j], deck[i], with Go's 0-based indices
swap(cards, i, j) ==
    [cards EXCEPT ![i + 1] = cards[j + 1], ![j + 1] = cards[i + 1]]

RECURSIVE modFrom(_, _, _, _)
modFrom(x, n, k, acc) ==
    IF k = 0 THEN acc ELSE modFrom(x, n, k - 1, (acc * 256 + x[k]) % n)

\* x % n for a uint64 x and 0 < n < 2^16
modU64(x, n) == modFrom(x, n, Bytes, 0)

\* math/rand, the part the program relies on: a generator is a deterministic
\* function of its seed alone.  Its state is a uint64 that starts as the
\* seed; Int31n(n) yields a value in 0..n-1 and advances the state.
NewSource(seed) == seed
int31n(rng, n) == modU64(rng, n)
rngNext(rng) == addU64(rng, toU64(1))

RECURSIVE shuffleFrom(_, _, _)
\* rng.Shuffle: for i := n-1; i > 0; i-- { j := rng.Int31n(i+1); swap(i, j) }
shuffleFrom(cards, i, rng) ==
    IF i <= 0 THEN cards
    ELSE shuffleFrom(swap(cards, i, int31n(rng, i + 1)), i - 1, rngNext(rng))

shuffleDeck(cards, rng) == shuffleFrom(cards, Len(cards) - 1, rng)

createDeck(c, rng) == shuffleDeck(buildDeck(c), rng)

(***************************************************************************)
(* The trial runner.                                                       *)
(***************************************************************************)
RECURSIVE comboScanNonLand(_, _, _, _)
\* comboScan testing the keyword for "non-land" where it should test combo
comboScanNonLand(hand, required, i, count) ==
    IF i > Len(hand) THEN FALSE
    ELSE IF hand[i].keyword = "non-land"
         THEN IF count + 1 = required THEN TRUE
              ELSE comboScanNonLand(hand, required, i + 1, count + 1)
         ELSE comboScanNonLand(hand, required, i + 1, count)

RECURSIVE comboScan(_, _, _, _)
\* the loop of checkComboWin from index i (1-based) with `count` pieces seen
comboScan(hand, required, i, count) ==
    IF i > Len(hand) THEN FALSE
    ELSE IF hand[i].combo
         THEN IF count + 1 = required THEN TRUE
              ELSE comboScan(hand, required, i + 1, count + 1)
         ELSE comboScan(hand, required, i + 1, count)

\* checkComboWin comparing once, after the loop: exactly `required` pieces
checkComboWinExact(hand, required) ==
    Cardinality({k \in 1..Len(hand) : hand[k].combo}) = required

checkComboWin(hand, required) == comboScan(hand, required, 1, 0)

\* lands among the cards of a hand
countLands(hand) == Cardinality({k \in 1..Len(hand) : hand[k].keyword = "land"})

\* The slices of runSimulation over their shared backing array arr:
\* hand = arr[0:handLen], deck (the library) = arr[deckOff:len(arr)].
handOf(t) == SubSeq(t.arr, 1, t.handLen)
libraryOf(t) == SubSeq(t.arr, t.deckOff + 1, Len(t.arr))

\* simBegin passing the library, not the hand, to checkComboWin
simBeginChecksLibrary(cards, required) ==
    LET hand == SubSeq(cards, 1, HandSize)
        openingLands == countLands(hand)
        won == checkComboWin(SubSeq(cards, HandSize + 1, Len(cards)), required)
    IN  [arr |-> cards, handLen |-> HandSize, deckOff |-> HandSize,
         drawCount |-> 0, openingLands |-> openingLands,
         pc |-> IF won THEN "return" ELSE "loop",
         path |-> IF won THEN "opening" ELSE "none",
         ret |-> Simulation(0, won, openingLands)]

\* simBegin with the library cut at deck[6:], one card too early
simBeginLibraryFromSix(cards, required) ==
    LET hand == SubSeq(cards, 1, HandSize)
        openingLands == countLands(hand)
        won == checkComboWin(hand, required)
    IN  [arr |-> cards, handLen |-> HandSize, deckOff |-> HandSize - 1,
         drawCount |-> 0, openingLands |-> openingLands,
         pc |-> IF won THEN "return" ELSE "loop",
         path |-> IF won THEN "opening" ELSE "none",
         ret |-> Simulation(0, won, openingLands)]

\* runSimulation up to the draw loop: the opening hand and its check
simBegin(cards, required) ==
    LET hand == SubSeq(cards, 1, HandSize)
        openingLands == countLands(hand)
        won == checkComboWin(hand, required)
    IN  [arr |-> cards, handLen |-> HandSize, deckOff |-> HandSize,
         drawCount |-> 0, openingLands |-> openingLands,
         pc |-> IF won THEN "return" ELSE "loop",
         path |-> IF won THEN "opening" ELSE "none",
         ret |-> Simulation(0, won, openingLands)]

\* simDraw counting one draw more on the return after the loop
simDrawCountsReturn(t, required) ==
    IF Len(t.arr) - t.deckOff > 0
    THEN LET drawCount == t.drawCount + 1
             drawn == t.arr[t.deckOff + 1]
             arr == [t.arr EXCEPT ![t.handLen + 1] = drawn]
             hand == SubSeq(arr, 1, t.handLen + 1)
             won == checkComboWin(hand, required)
         IN  [t EXCEPT !.arr = arr, !.handLen = t.handLen + 1,
                       !.deckOff = t.deckOff + 1, !.drawCount = drawCount,
                       !.pc = IF won THEN "return" ELSE "loop",
                       !.path = IF won THEN "drawn" ELSE "none",
                       !.ret = Simulation(drawCount, FALSE, t.openingLands)]
    ELSE [t EXCEPT !.pc = "return", !.path = "exhausted",
                   !.ret = Simulation(t.drawCount + 1, FALSE, t.openingLands)]

\* simDraw checking the hand before the drawn card is appended to it
simDrawChecksBeforeAppend(t, required) ==
    IF Len(t.arr) - t.deckOff > 0
    THEN LET drawCount == t.drawCount + 1
             drawn == t.arr[t.deckOff + 1]
             arr == [t.arr EXCEPT ![t.handLen + 1] = drawn]
             hand == SubSeq(t.arr, 1, t.handLen)
             won == checkComboWin(hand, required)
         IN  [t EXCEPT !.arr = arr, !.handLen = t.handLen + 1,
                       !.deckOff = t.deckOff + 1, !.drawCount = drawCount,
                       !.pc = IF won THEN "return" ELSE "loop",
                       !.path = IF won THEN "drawn" ELSE "none",
                       !.ret = Simulation(drawCount, FALSE, t.openingLands)]
    ELSE [t EXCEPT !.pc = "return", !.path = "exhausted",
                   !.ret = Simulation(t.drawCount, FALSE, t.openingLands)]

\* simDraw counting the lands of the whole hand again at each return
simDrawRecountsLands(t, required) ==
    IF Len(t.arr) - t.deckOff > 0
    THEN LET drawCount == t.drawCount + 1
             drawn == t.arr[t.deckOff + 1]
             arr == [t.arr EXCEPT ![t.handLen + 1] = drawn]
             hand == SubSeq(arr, 1, t.handLen + 1)
             won == checkComboWin(hand, required)
         IN  [t EXCEPT !.arr = arr, !.handLen = t.handLen + 1,
                       !.deckOff = t.deckOff + 1, !.drawCount = drawCount,
                       !.pc = IF won THEN "return" ELSE "loop",
                       !.path = IF won THEN "drawn" ELSE "none",
                       !.ret = Simulation(drawCount, FALSE, countLands(hand))]
    ELSE [t EXCEPT !.pc = "return", !.path = "exhausted",
                   !.ret = Simulation(t.drawCount, FALSE,
                                      countLands(handOf(t)))]

\* one pass of `for len(deck) > 0 { ... }`, or the return after it
simDraw(t, required) ==
    IF Len(t.arr) - t.deckOff > 0
    THEN LET drawCount == t.drawCount + 1
             drawn == t.arr[t.deckOff + 1]
             arr == [t.arr EXCEPT ![t.handLen + 1] = drawn]
             hand == SubSeq(arr, 1, t.handLen + 1)
             won == checkComboWin(hand, required)
         IN  [t EXCEPT !.arr = arr, !.handLen = t.handLen + 1,
                       !.deckOff = t.deckOff + 1, !.drawCount = drawCount,
                       !.pc = IF won THEN "return" ELSE "loop",
                       !.path = IF won THEN "drawn" ELSE "none",
                       !.ret = Simulation(drawCount, FALSE, t.openingLands)]
    ELSE [t EXCEPT !.pc = "return", !.path = "exhausted",
                   !.ret = Simulation(t.drawCount, FALSE, t.openingLands)]

RECURSIVE simLoop(_, _)
simLoop(t, required) ==
    IF t.pc = "return" THEN t ELSE simLoop(simDraw(t, required), required)

\* the whole of runSimulation, with the return path taken
runTrial(cards, required) == simLoop(simBegin(cards, required), required)

runSimulation(cards, required) == runTrial(cards, required).ret

(***************************************************************************)
(* validateConfig: the error returned, "nil" for none.                     *)
(***************************************************************************)
\* validateConfig with `required < 0` for `required < 1`
validateConfigRequiredZero(c) ==
    IF c.deckSize < HandSize THEN "deck size must be at least 7"
    ELSE IF c.lands < 0 THEN "lands cannot be negative"
    ELSE IF c.combos < 0 THEN "combos cannot be negative"
    ELSE IF c.required < 0 THEN "required combo pieces must be at least 1"
    ELSE IF c.required > c.combos
         THEN "required combo pieces cannot exceed total combo pieces"
    ELSE IF c.lands + c.combos > c.deckSize
         THEN "lands + combos cannot exceed deck size"
    ELSE IF c.runs < 1 THEN "runs must be at least 1"
    ELSE "nil"

\* validateConfig without the comparison of required with combos
validateConfigCombosUnchecked(c) ==
    IF c.deckSize < HandSize THEN "deck size must be at least 7"
    ELSE IF c.lands < 0 THEN "lands cannot be negative"
    ELSE IF c.combos < 0 THEN "combos cannot be negative"
    ELSE IF c.required < 1 THEN "required combo pieces must be at least 1"
    ELSE IF c.lands + c.combos > c.deckSize
         THEN "lands + combos cannot exceed deck size"
    ELSE IF c.runs < 1 THEN "runs must be at least 1"
    ELSE "nil"

validateConfig(c) ==
    IF c.deckSize < HandSize THEN "deck size must be at least 7"
    ELSE IF c.lands < 0 THEN "lands cannot be negative"
    ELSE IF c.combos < 0 THEN "combos cannot be negative"
    ELSE IF c.required < 1 THEN "required combo pieces must be at least 1"
    ELSE IF c.required > c.combos
         THEN "required combo pieces cannot exceed total combo pieces"
    ELSE IF c.lands + c.combos > c.deckSize
         THEN "lands + combos cannot exceed deck size"
    ELSE IF c.runs < 1 THEN "runs must be at least 1"
    ELSE "nil"

(***************************************************************************)
(* State.                                                                  *)
(***************************************************************************)
VARIABLES
    \* --- one call each of validateConfig, createDeck and runSimulation ---
    tcfg,            \* the Config they are called with
    tpc,             \* "validate", "create", "shuffle", "draw", "done"
    err,             \* what validateConfig returned ("none" before the call)
    deck,            \* createDeck's deck, being shuffled, then shuffled
    shuffleI,        \* rng.Shuffle's loop index i
    trial,           \* runSimulation's locals (see simBegin)
    \* --- runScenario ---
    cfg,             \* its Config
    workerCount,     \* runtime.NumCPU()
    dpc,             \* the dispatcher goroutine: "send", "close", "wait", "done"
    di,              \* its loop index i
    jobs,            \* the jobs channel's buffer
    jobsClosed,
    wpc,             \* per worker: "recv", "send", "done"
    widx,            \* per worker: its simIndex
    wgen,            \* per worker: the generator it last shuffled from,
                     \* <<index it was seeded for, decks shuffled from it>>
    wsim,            \* per worker: the Simulation it is about to send
    output,          \* the output channel's buffer
    outputClosed,
    apc,             \* the aggregating loop: "recv", "returned"
    results,         \* var results Results
    drawSum, landSum, openingWinCount,
    ran,             \* history: how often each trial index has been run
    order,           \* history: the trial indices in the order of their sends
    run,             \* 1 for the first call of runScenario, 2 for the second
    got1,            \* what the first call returned
    workers1,        \* the worker count of the first call
    panicked,        \* a send on a closed channel happened
    \* --- simSeed called on two (baseSeed, simIndex) pairs ---
    seedPc,          \* "derive", "run", "done"
    seedIn,          \* <<baseSeed, simIndex, baseSeed', simIndex'>>
    seedOut,         \* the two derived seeds
    seedSims         \* the Simulations of the two trials

tvars == <<tcfg, tpc, err, deck, shuffleI, trial>>
dvars == <<seedPc, seedIn, seedOut, seedSims>>
svars == <<cfg, workerCount, dpc, di, jobs, jobsClosed, wpc, widx, wgen, wsim,
           output, outputClosed, apc, results, drawSum, landSum,
           openingWinCount, ran, order, run, got1, workers1, panicked>>
vars == <<tcfg, tpc, err, deck, shuffleI, trial,
          cfg, workerCount, dpc, di, jobs, jobsClosed, wpc, widx, wgen, wsim,
          output, outputClosed, apc, results, drawSum, landSum,
          openingWinCount, ran, order, run, got1, workers1, panicked,
          seedPc, seedIn, seedOut, seedSims>>

\* var results = Results{}
ZeroResults ==
    [attempts |-> 0, averageDrawsToWin |-> <<0, 1>>, openingHandWins |-> 0,
     averageOpeningHandWins |-> <<0, 1>>, averageOpeningLands |-> <<0, 1>>]

NoTrial ==
    [arr |-> <<>>, handLen |-> 0, deckOff |-> 0, drawCount |-> 0,
     openingLands |-> 0, pc |-> "none", path |-> "none",
     ret |-> Simulation(0, FALSE, 0)]

\* the variables of the part a specification does not exercise
SeedIdle ==
    /\ seedPc = "idle"
    /\ seedIn = <<>>
    /\ seedOut = <<>>
    /\ seedSims = <<>>

TrialIdle ==
    /\ tcfg = Config(HandSize, 0, 0, 0, 0, 0)
    /\ tpc = "idle"
    /\ err = "none"
    /\ deck = <<>>
    /\ shuffleI = 0
    /\ trial = NoTrial

ScenarioIdle ==
    /\ cfg = Config(HandSize, 0, 0, 0, 0, 0)
    /\ workerCount = 0
    /\ dpc = "idle"
    /\ di = 0
    /\ jobs = <<>>
    /\ jobsClosed = FALSE
    /\ wpc = <<>>
    /\ widx = <<>>
    /\ wgen = <<>>
    /\ wsim = <<>>
    /\ output = <<>>
    /\ outputClosed = FALSE
    /\ apc = "idle"
    /\ results = ZeroResults
    /\ drawSum = 0
    /\ landSum = 0
    /\ openingWinCount = 0
    /\ ran = <<>>
    /\ order = <<>>
    /\ run = 0
    /\ got1 = ZeroResults
    /\ workers1 = 0
    /\ panicked = FALSE

(***************************************************************************)
(* TrialSpec: validateConfig, createDeck and runSimulation called in turn  *)
(* on one Config, as src/unnamed/part_001 calls them.  validateConfig is   *)
(* called on any Config; createDeck and runSimulation on every Config that *)
(* describes a deck (7 cards or more, no negative count, lands and combos  *)
(* fitting in), with any `required`, also one validateConfig rejects.  The *)
(* shuffle takes any value the generator may yield at each step.           *)
(***************************************************************************)
\* largest combos and required explored
MaxCombos == 2

TrialConfigs ==
    {Config(d, l, c, r, n, 0) :
        d \in (HandSize - 1)..MaxDeck, l \in -1..MaxDeck, c \in -1..MaxCombos,
        r \in 0..(MaxCombos + 1), n \in 0..1}

TrialInit ==
    /\ tcfg \in TrialConfigs
    /\ tpc = "validate"
    /\ err = "none"
    /\ deck = <<>>
    /\ shuffleI = 0
    /\ trial = NoTrial
    /\ ScenarioIdle
    /\ SeedIdle

ValidateConfig ==
    /\ tpc = "validate"
    /\ err' = validateConfig(tcfg)
    /\ tpc' = "create"
    /\ UNCHANGED <<tcfg, deck, shuffleI, trial>>

\* the Configs createDeck is called on
DescribesDeck(c) ==
    /\ c.deckSize >= HandSize
    /\ c.lands >= 0
    /\ c.combos >= 0
    /\ c.lands + c.combos <= c.deckSize

\* createDeck up to its call of shuffleDeck
CreateDeck ==
    /\ tpc = "create"
    /\ DescribesDeck(tcfg)
    /\ deck' = buildDeck(tcfg)
    /\ shuffleI' = Len(deck') - 1
    /\ tpc' = "shuffle"
    /\ UNCHANGED <<tcfg, err, trial>>

\* one pass of rng.Shuffle's loop
ShuffleStep ==
    /\ tpc = "shuffle"
    /\ shuffleI > 0
    /\ \E j \in 0..shuffleI : deck' = swap(deck, shuffleI, j)
    /\ shuffleI' = shuffleI - 1
    /\ UNCHANGED <<tcfg, tpc, err, trial>>

\* runSimulation(deck, cfg.required) up to its draw loop
BeginSimulation ==
    /\ tpc = "shuffle"
    /\ shuffleI <= 0
    /\ trial' = simBegin(deck, tcfg.required)
    /\ tpc' = IF trial'.pc = "return" THEN "done" ELSE "draw"
    /\ UNCHANGED <<tcfg, err, deck, shuffleI>>

\* one pass of runSimulation's draw loop, or its last return
Draw ==
    /\ tpc = "draw"
    /\ trial' = simDraw(trial, tcfg.required)
    /\ tpc' = IF trial'.pc = "return" THEN "done" ELSE "draw"
    /\ UNCHANGED <<tcfg, err, deck, shuffleI>>

TrialNext ==
    \/ ValidateConfig /\ UNCHANGED <<svars, dvars>>
    \/ CreateDeck /\ UNCHANGED <<svars, dvars>>
    \/ ShuffleStep /\ UNCHANGED <<svars, dvars>>
    \/ BeginSimulation /\ UNCHANGED <<svars, dvars>>
    \/ Draw /\ UNCHANGED <<svars, dvars>>

TrialSpec == TrialInit /\ [][TrialNext]_vars

(***************************************************************************)
(* Spec: runScenario, called twice in a row on one Config (as               *)
(* TestRunScenarioDeterministicWithSeed does), each call with a worker     *)
(* pool of any size.  The dispatcher goroutine, the workers and the        *)
(* aggregating loop of the caller interleave freely.                       *)
(***************************************************************************)
\* base seeds explored
Seeds == {0, 1}

\* two lands and two combo pieces; required may exceed the combo pieces and
\* runs may be 0, which runScenario itself does not refuse
ScenarioConfigs ==
    {Config(MaxDeck, 2, 2, r, n, s) : r \in 1..3, n \in 0..MaxRuns, s \in Seeds}

RECURSIVE gcd(_, _)
gcd(a, b) == IF b = 0 THEN a ELSE gcd(b, a % b)

\* float64(a) / float64(b) for small non-negative a and b: the exact
\* quotient, as a reduced fraction; by IEEE 754, which Go's float64 division
\* follows, 0/0 is NaN, here <<0, 0>>, and a/0 is +Inf, here <<1, 0>>
floatDiv(a, b) ==
    IF b = 0 THEN <<IF a = 0 THEN 0 ELSE 1, 0>>
    ELSE LET g == gcd(a, b) IN <<a \div g, b \div g>>

\* the body of a worker's loop: the Simulation it sends for index simIndex
workerTrial(c, simIndex) ==
    LET rng == NewSource(simSeed(c.seed, simIndex))
    IN  runSimulation(createDeck(c, rng), c.required)

\* the generator after n more draws: rngNext applied n times
advance(rng, n) == addU64(rng, toU64(n))

\* A worker's generator is named by the index it was seeded for and the
\* number of decks shuffled from it since: g = <<j, k>> is
\* rand.New(rand.NewSource(simSeed(cfg.seed, j))) after k calls of
\* createDeck, each of which draws len(deck) - 1 times in rng.Shuffle.
generatorOf(c, g) ==
    advance(NewSource(simSeed(c.seed, g[1])), g[2] * (c.deckSize - 1))

\* a worker that has not made a generator yet
NoGenerator == <<-1, 0>>

\* createDeck and runSimulation on generator g
generatorTrial(c, g) ==
    runSimulation(createDeck(c, generatorOf(c, g)), c.required)

\* generatorTrial over the configurations and generators of the model,
\* tabulated
trialTable ==
    {<<c, <<j, k>>, generatorTrial(c, <<j, k>>)>> :
        c \in ScenarioConfigs, j \in 0..MaxRuns, k \in 0..MaxRuns}

\* the Simulation a worker sends after shuffling from generator g
trialOf(c, g) ==
    (CHOOSE e \in trialTable : e[1] = c /\ e[2] = g)[3]

\* one generator made before the loop and used for every index received
workerGeneratorReused(simIndex, last) ==
    IF last = NoGenerator THEN <<simIndex, 0>> ELSE last

\* rng := rand.New(rand.NewSource(simSeed(cfg.seed, simIndex))): a new
\* generator for each index, whatever generator the worker used last
workerGenerator(simIndex, last) == <<simIndex, 0>>

\* the loop condition with <= for <
moreJobsInclusive(c, i) == i <= c.runs

\* the dispatcher's loop condition: i < cfg.runs
moreJobs(c, i) == i < c.runs

\* close(output) with no workers.Wait() before it
WorkersNotAwaited == TRUE

\* workers.Wait() returning once one worker is done (workers.Add(1))
WorkersDoneAny == \E w \in 1..workerCount : wpc[w] = "done"

\* workers.Wait() returns
WorkersDone == \A w \in 1..workerCount : wpc[w] = "done"

\* finalize without the `if results.attempts > 0` around the divisions
finalizeUnguarded(r, draws, lands, wins) ==
    [r EXCEPT !.averageDrawsToWin = floatDiv(draws, r.attempts),
              !.averageOpeningHandWins = floatDiv(wins, r.attempts),
              !.openingHandWins = wins,
              !.averageOpeningLands = floatDiv(lands, r.attempts)]

\* the statistics runScenario derives once the output channel is drained
finalize(r, draws, lands, wins) ==
    IF r.attempts > 0
    THEN [r EXCEPT !.averageDrawsToWin = floatDiv(draws, r.attempts),
                   !.averageOpeningHandWins = floatDiv(wins, r.attempts),
                   !.openingHandWins = wins,
                   !.averageOpeningLands = floatDiv(lands, r.attempts)]
    ELSE r

\* the state of a call of runScenario as it starts, with n workers
StartRun(n) ==
    /\ workerCount = n
    /\ dpc = "send"
    /\ di = 0
    /\ jobs = <<>>
    /\ jobsClosed = FALSE
    /\ wpc = [w \in 1..n |-> "recv"]
    /\ widx = [w \in 1..n |-> 0]
    /\ wgen = [w \in 1..n |-> NoGenerator]
    /\ wsim = [w \in 1..n |-> Simulation(0, FALSE, 0)]
    /\ output = <<>>
    /\ outputClosed = FALSE
    /\ apc = "recv"
    /\ results = ZeroResults
    /\ drawSum = 0
    /\ landSum = 0
    /\ openingWinCount = 0
    /\ ran = [i \in -1..MaxRuns |-> 0]
    /\ order = <<>>
    /\ panicked = FALSE

Init ==
    /\ TrialIdle
    /\ SeedIdle
    /\ cfg \in ScenarioConfigs
    /\ run = 1
    /\ got1 = ZeroResults
    /\ workers1 = 0
    /\ \E n \in 1..MaxWorkers : StartRun(n)

\* jobs <- i
DispatchSend ==
    /\ ~panicked
    /\ dpc = "send"
    /\ moreJobs(cfg, di)
    /\ Len(jobs) < workerCount
    /\ jobs' = Append(jobs, di)
    /\ di' = di + 1
    /\ UNCHANGED <<cfg, workerCount, dpc, jobsClosed, wpc, widx, wgen, wsim, output,
                   outputClosed, apc, results, drawSum, landSum,
                   openingWinCount, ran, order, run, got1, workers1,
                   panicked>>

\* the dispatcher going on to workers.Wait() without close(jobs)
CloseJobsForgotten ==
    /\ ~panicked
    /\ dpc = "send"
    /\ ~moreJobs(cfg, di)
    /\ dpc' = "wait"
    /\ UNCHANGED <<cfg, workerCount, di, jobs, jobsClosed, wpc, widx, wgen, wsim,
                   output, outputClosed, apc, results, drawSum, landSum,
                   openingWinCount, ran, order, run, got1, workers1,
                   panicked>>

\* close(jobs)
CloseJobs ==
    /\ ~panicked
    /\ dpc = "send"
    /\ ~moreJobs(cfg, di)
    /\ jobsClosed' = TRUE
    /\ dpc' = "wait"
    /\ UNCHANGED <<cfg, workerCount, di, jobs, wpc, widx, wgen, wsim, output,
                   outputClosed, apc, results, drawSum, landSum,
                   openingWinCount, ran, order, run, got1, workers1,
                   panicked>>

\* workers.Wait(); close(output)
CloseOutput ==
    /\ ~panicked
    /\ dpc = "wait"
    /\ WorkersDone
    /\ outputClosed' = TRUE
    /\ dpc' = "done"
    /\ UNCHANGED <<cfg, workerCount, di, jobs, jobsClosed, wpc, widx, wgen, wsim,
                   output, apc, results, drawSum, landSum, openingWinCount,
                   ran, order, run, got1, workers1, panicked>>

\* simIndex := <-jobs, then the trial
WorkerRecv(w) ==
    /\ ~panicked
    /\ wpc[w] = "recv"
    /\ jobs # <<>>
    /\ LET simIndex == Head(jobs)
           g == workerGenerator(simIndex, wgen[w])
       IN  /\ widx' = [widx EXCEPT ![w] = simIndex]
           /\ wsim' = [wsim EXCEPT ![w] = trialOf(cfg, g)]
           /\ wgen' = [wgen EXCEPT ![w] = <<g[1], g[2] + 1>>]
           /\ ran' = [ran EXCEPT ![simIndex] = @ + 1]
    /\ jobs' = Tail(jobs)
    /\ wpc' = [wpc EXCEPT ![w] = "send"]
    /\ UNCHANGED <<cfg, workerCount, dpc, di, jobsClosed, output,
                   outputClosed, apc, results, drawSum, landSum,
                   openingWinCount, order, run, got1, workers1, panicked>>

\* a worker adding its draws to drawSum itself as it sends
WorkerSendAccumulates(w) ==
    /\ ~panicked
    /\ wpc[w] = "send"
    /\ IF outputClosed
       THEN /\ panicked' = TRUE
            /\ wpc' = [wpc EXCEPT ![w] = "done"]
            /\ UNCHANGED <<output, order, drawSum>>
       ELSE /\ Len(output) < OutputCap
            /\ output' = Append(output, wsim[w])
            /\ order' = Append(order, widx[w])
            /\ wpc' = [wpc EXCEPT ![w] = "recv"]
            /\ drawSum' = drawSum + wsim[w].drawsToWinCon
            /\ UNCHANGED panicked
    /\ UNCHANGED <<cfg, workerCount, dpc, di, jobs, jobsClosed, widx, wgen, wsim,
                   outputClosed, apc, results, landSum,
                   openingWinCount, ran, run, got1, workers1>>

\* output <- runSimulation(...); a send on a closed channel panics, which
\* ends the program
WorkerSend(w) ==
    /\ ~panicked
    /\ wpc[w] = "send"
    /\ IF outputClosed
       THEN /\ panicked' = TRUE
            /\ wpc' = [wpc EXCEPT ![w] = "done"]
            /\ UNCHANGED <<output, order>>
       ELSE /\ Len(output) < OutputCap
            /\ output' = Append(output, wsim[w])
            /\ order' = Append(order, widx[w])
            /\ wpc' = [wpc EXCEPT ![w] = "recv"]
            /\ UNCHANGED panicked
    /\ UNCHANGED <<cfg, workerCount, dpc, di, jobs, jobsClosed, widx, wgen, wsim,
                   outputClosed, apc, results, drawSum, landSum,
                   openingWinCount, ran, run, got1, workers1>>

\* `range jobs` ends: jobs is closed and drained; workers.Done()
WorkerExit(w) ==
    /\ ~panicked
    /\ wpc[w] = "recv"
    /\ jobs = <<>>
    /\ jobsClosed
    /\ wpc' = [wpc EXCEPT ![w] = "done"]
    /\ UNCHANGED <<cfg, workerCount, dpc, di, jobs, jobsClosed, widx, wgen, wsim,
                   output, outputClosed, apc, results, drawSum, landSum,
                   openingWinCount, ran, order, run, got1, workers1,
                   panicked>>

\* the aggregating loop with openingWinCount++ outside `if sim.openingHandWin`
AggregateCountsEveryWin ==
    /\ ~panicked
    /\ apc = "recv"
    /\ output # <<>>
    /\ LET sim == Head(output)
       IN  /\ results' = [results EXCEPT !.attempts = @ + 1]
           /\ openingWinCount' = openingWinCount + 1
           /\ drawSum' = drawSum + sim.drawsToWinCon
           /\ landSum' = landSum + sim.openingHandLands
    /\ output' = Tail(output)
    /\ UNCHANGED <<cfg, workerCount, dpc, di, jobs, jobsClosed, wpc, widx, wgen,
                   wsim, outputClosed, apc, ran, order, run, got1, workers1,
                   panicked>>

\* one pass of `for sim := range output`
Aggregate ==
    /\ ~panicked
    /\ apc = "recv"
    /\ output # <<>>
    /\ LET sim == Head(output)
       IN  /\ results' = [results EXCEPT !.attempts = @ + 1]
           /\ openingWinCount' =
                  IF sim.openingHandWin THEN openingWinCount + 1
                  ELSE openingWinCount
           /\ drawSum' = drawSum + sim.drawsToWinCon
           /\ landSum' = landSum + sim.openingHandLands
    /\ output' = Tail(output)
    /\ UNCHANGED <<cfg, workerCount, dpc, di, jobs, jobsClosed, wpc, widx, wgen,
                   wsim, outputClosed, apc, ran, order, run, got1, workers1,
                   panicked>>

\* `range output` ends: output is closed and drained; runScenario returns
Return ==
    /\ ~panicked
    /\ apc = "recv"
    /\ output = <<>>
    /\ outputClosed
    /\ results' = finalize(results, drawSum, landSum, openingWinCount)
    /\ apc' = "returned"
    /\ UNCHANGED <<cfg, workerCount, dpc, di, jobs, jobsClosed, wpc, widx, wgen,
                   wsim, output, outputClosed, drawSum, landSum,
                   openingWinCount, ran, order, run, got1, workers1,
                   panicked>>

\* got1 is kept and runScenario is called again on the same Config
SecondRun ==
    /\ ~panicked
    /\ apc = "returned"
    /\ run = 1
    /\ got1' = results
    /\ workers1' = workerCount
    /\ run' = 2
    /\ \E n \in 1..MaxWorkers :
          /\ workerCount' = n
          /\ wpc' = [w \in 1..n |-> "recv"]
          /\ widx' = [w \in 1..n |-> 0]
          /\ wgen' = [w \in 1..n |-> NoGenerator]
          /\ wsim' = [w \in 1..n |-> Simulation(0, FALSE, 0)]
    /\ dpc' = "send"
    /\ di' = 0
    /\ jobs' = <<>>
    /\ jobsClosed' = FALSE
    /\ output' = <<>>
    /\ outputClosed' = FALSE
    /\ apc' = "recv"
    /\ results' = ZeroResults
    /\ drawSum' = 0
    /\ landSum' = 0
    /\ openingWinCount' = 0
    /\ ran' = [i \in -1..MaxRuns |-> 0]
    /\ order' = <<>>
    /\ UNCHANGED <<cfg, panicked>>

\* the steps of each goroutine, and of the caller
Dispatcher ==
    (DispatchSend \/ CloseJobs \/ CloseOutput) /\ UNCHANGED <<tvars, dvars>>
Worker(w) ==
    (WorkerRecv(w) \/ WorkerSend(w) \/ WorkerExit(w)) /\ UNCHANGED <<tvars, dvars>>
Aggregator == (Aggregate \/ Return) /\ UNCHANGED <<tvars, dvars>>
Caller == SecondRun /\ UNCHANGED <<tvars, dvars>>

Next ==
    \/ DispatchSend /\ UNCHANGED <<tvars, dvars>>
    \/ CloseJobs /\ UNCHANGED <<tvars, dvars>>
    \/ CloseOutput /\ UNCHANGED <<tvars, dvars>>
    \/ \E w \in 1..workerCount : WorkerRecv(w) /\ UNCHANGED <<tvars, dvars>>
    \/ \E w \in 1..workerCount : WorkerSend(w) /\ UNCHANGED <<tvars, dvars>>
    \/ \E w \in 1..workerCount : WorkerExit(w) /\ UNCHANGED <<tvars, dvars>>
    \/ Aggregate /\ UNCHANGED <<tvars, dvars>>
    \/ Return /\ UNCHANGED <<tvars, dvars>>
    \/ SecondRun /\ UNCHANGED <<tvars, dvars>>

Spec == Init /\ [][Next]_vars

\* The Go scheduler runs every goroutine that can take a step.
FairSpec ==
    /\ Spec
    /\ WF_vars(Dispatcher)
    /\ \A w \in 1..MaxWorkers : WF_vars(w <= workerCount /\ Worker(w))
    /\ WF_vars(Aggregator)
    /\ WF_vars(Caller)

(***************************************************************************)
(* SeedSpec: simSeed called on two pairs of base seed and trial index, and *)
(* the two trials a worker runs from them on one deck description.         *)
(***************************************************************************)
\* base seeds explored: -1 is 2^64 - 1 as a uint64, so adding an index wraps
SeedBases == {-1, 0, 1, 42}

\* the Config of the two trials, but for its seed
SeedConfig(baseSeed) == Config(MaxDeck, 2, 2, 2, 1, baseSeed)

SeedInit ==
    /\ seedPc = "derive"
    /\ seedIn \in {<<b1, i1, b2, i2>> :
                      b1 \in SeedBases, i1 \in 0..MaxRuns,
                      b2 \in SeedBases, i2 \in 0..MaxRuns}
    /\ seedOut = <<>>
    /\ seedSims = <<>>
    /\ TrialIdle
    /\ ScenarioIdle

\* simSeed(cfg.seed, simIndex), for each pair
DeriveSeeds ==
    /\ seedPc = "derive"
    /\ seedOut' = <<simSeed(seedIn[1], seedIn[2]),
                    simSeed(seedIn[3], seedIn[4])>>
    /\ seedPc' = "run"
    /\ UNCHANGED <<seedIn, seedSims>>

\* the body of the worker's loop, for each pair
RunTrials ==
    /\ seedPc = "run"
    /\ seedSims' = <<workerTrial(SeedConfig(seedIn[1]), seedIn[2]),
                     workerTrial(SeedConfig(seedIn[3]), seedIn[4])>>
    /\ seedPc' = "done"
    /\ UNCHANGED <<seedIn, seedOut>>

SeedNext ==
    \/ DeriveSeeds /\ UNCHANGED <<tvars, svars>>
    \/ RunTrials /\ UNCHANGED <<tvars, svars>>

SeedSpec == SeedInit /\ [][SeedNext]_vars

(***************************************************************************)
(* Properties.                                                             *)
(***************************************************************************)
\* how many cards of a sequence satisfy a test
landsIn(d) == Cardinality({k \in 1..Len(d) : d[k].keyword = "land"})
combosIn(d) ==
    Cardinality({k \in 1..Len(d) : d[k].keyword = "non-land" /\ d[k].combo})
plainIn(d) ==
    Cardinality({k \in 1..Len(d) : d[k].keyword = "non-land" /\ ~d[k].combo})
comboLandsIn(d) ==
    Cardinality({k \in 1..Len(d) : d[k].keyword = "land" /\ d[k].combo})
census(d) == <<Len(d), landsIn(d), combosIn(d), plainIn(d), comboLandsIn(d)>>

\* createDeck has built the deck (the shuffle may still be running)
DeckBuilt == tpc \in {"shuffle", "draw", "done"}
\* shuffleDeck has returned
Shuffled == DeckBuilt /\ shuffleI <= 0

\* C3: for a Config validateConfig accepts, the deck createDeck builds has
\* exactly deckSize cards: `lands` lands, `combos` combo-marked non-lands and
\* deckSize - lands - combos plain non-lands, no land combo-marked; and for
\* any Config every step of the shuffle leaves the deck a permutation of
\* the cards built.
C3_DeckComposition ==
    DeckBuilt =>
        /\ census(deck) = census(buildDeck(tcfg))
        /\ validateConfig(tcfg) = "nil" =>
              census(deck) = <<tcfg.deckSize, tcfg.lands, tcfg.combos,
                               tcfg.deckSize - tcfg.lands - tcfg.combos, 0>>

\* a valid Config with all three kinds of card, shuffled out of build order
C3_Witness ==
    /\ Shuffled
    /\ err = "nil"
    /\ tcfg.lands > 0 /\ tcfg.combos > 0
    /\ tcfg.deckSize > tcfg.lands + tcfg.combos
    /\ deck # buildDeck(tcfg)

\* the seven conditions of validateConfig
Rejectable(c) ==
    \/ c.deckSize < 7
    \/ c.lands < 0
    \/ c.combos < 0
    \/ c.required < 1
    \/ c.required > c.combos
    \/ c.lands + c.combos > c.deckSize
    \/ c.runs < 1

\* C4: validateConfig returns an error exactly when deckSize < 7, lands < 0,
\* combos < 0, required < 1, required > combos, lands + combos > deckSize
\* or runs < 1, and nil otherwise.
C4_ValidateExact ==
    err # "none" => (err # "nil" <=> Rejectable(tcfg))

\* required = 0 alone is enough for a rejection
C4_Witness ==
    /\ err \notin {"none", "nil"}
    /\ tcfg.required = 0
    /\ tcfg.deckSize >= 7 /\ tcfg.lands >= 0 /\ tcfg.combos >= 0
    /\ tcfg.lands + tcfg.combos <= tcfg.deckSize /\ tcfg.runs >= 1

\* the combo pieces of a sequence of cards, as checkComboWin counts them
comboPieces(d) == Cardinality({k \in 1..Len(d) : d[k].combo})

\* the 1-based position of the r-th combo piece of d (1 <= r <= comboPieces(d))
comboPosition(d, r) ==
    CHOOSE q \in 1..Len(d) : d[q].combo /\ comboPieces(SubSeq(d, 1, q)) = r

\* runSimulation has returned
Returned == tpc = "done"
\* ... from one of its two winning returns
Won(t) == t.path \in {"opening", "drawn"}
draws == trial.ret.drawsToWinCon
openingCombos == comboPieces(SubSeq(deck, 1, HandSize))

\* C6: whatever the deck (of 7 cards or more) and whatever `required`, the
\* drawsToWinCon runSimulation returns lies in 0 .. len(deck) - 7.
C6_DrawsWithinLibrary ==
    Returned => draws \in 0..(Len(deck) - HandSize)

\* the bound is met: a win on the last card of a library of two or more
C6_Witness ==
    /\ Returned
    /\ trial.path = "drawn"
    /\ draws = Len(deck) - HandSize
    /\ draws >= 2

\* C7 as stated: a win after d draws with `required` = r is a win after at
\* most d draws with every r' <= r.
C7_MonotoneAnyRequired ==
    (Returned /\ Won(trial)) =>
        \A r2 \in -1..tcfg.required :
            /\ Won(runTrial(deck, r2))
            /\ runSimulation(deck, r2).drawsToWinCon <= draws

\* C7, amended: a win after d draws with `required` = r is a win after at
\* most d draws with every r' in 1..r.
C7_Monotone ==
    (Returned /\ Won(trial)) =>
        \A r2 \in 1..tcfg.required :
            /\ Won(runTrial(deck, r2))
            /\ runSimulation(deck, r2).drawsToWinCon <= draws

\* a win with r = 2 after a draw, that r' = 1 wins strictly earlier
C7_Witness ==
    /\ Returned
    /\ trial.path = "drawn"
    /\ tcfg.required = 2
    /\ runSimulation(deck, 1).drawsToWinCon < draws

\* C8 as stated: openingHandWin = true with drawsToWinCon = 0 is returned
\* exactly when the first 7 cards hold at least `required` combo pieces, and
\* then no card has been drawn.
C8_OpeningWinAnyRequired ==
    Returned =>
        /\ (trial.ret.openingHandWin /\ draws = 0) <=>
               openingCombos >= tcfg.required
        /\ trial.ret.openingHandWin =>
               /\ trial.drawCount = 0
               /\ handOf(trial) = SubSeq(deck, 1, HandSize)
               /\ libraryOf(trial) = SubSeq(deck, HandSize + 1, Len(deck))

\* C8, amended: for required >= 1, openingHandWin = true with
\* drawsToWinCon = 0 is returned exactly when the first 7 cards hold at
\* least `required` combo pieces, and then no card has been drawn.
C8_OpeningWin ==
    (Returned /\ tcfg.required >= 1) =>
        /\ (trial.ret.openingHandWin /\ draws = 0) <=>
               openingCombos >= tcfg.required
        /\ trial.ret.openingHandWin =>
               /\ trial.drawCount = 0
               /\ handOf(trial) = SubSeq(deck, 1, HandSize)
               /\ libraryOf(trial) = SubSeq(deck, HandSize + 1, Len(deck))

\* an opening-hand win that leaves a library with a combo piece undrawn
C8_Witness ==
    /\ Returned
    /\ tcfg.required >= 1
    /\ trial.ret.openingHandWin
    /\ comboPieces(libraryOf(trial)) > 0

\* C9: when the opening hand does not win and the deck holds the
\* required-th combo piece, at 1-based position p, runSimulation returns
\* openingHandWin = false and drawsToWinCon = p - 7.
C9_StopsAtRequiredPiece ==
    (/\ Returned
     /\ trial.path # "opening"
     /\ tcfg.required \in 1..comboPieces(deck)) =>
        /\ ~trial.ret.openingHandWin
        /\ draws = comboPosition(deck, tcfg.required) - HandSize
        /\ trial.path = "drawn"

\* the second of two pieces drawn first from the library, a card left in it
C9_Witness ==
    /\ Returned
    /\ trial.path = "drawn"
    /\ tcfg.required = 2
    /\ draws = 1
    /\ Len(libraryOf(trial)) > 0

\* C10: on a deck of n >= 7 cards with fewer combo pieces than `required`,
\* runSimulation draws the whole library and returns drawsToWinCon = n - 7
\* and openingHandWin = false, never from a winning return.
C10_ShortOfPiecesNeverWins ==
    (Returned /\ comboPieces(deck) < tcfg.required) =>
        /\ trial.path = "exhausted"
        /\ draws = Len(deck) - HandSize
        /\ ~trial.ret.openingHandWin
        /\ libraryOf(trial) = <<>>

\* two pieces in the deck, three required, a library that was drawn
C10_Witness ==
    /\ Returned
    /\ comboPieces(deck) = 2
    /\ tcfg.required = 3
    /\ draws >= 1

\* runScenario has returned
ScenarioReturned == apc = "returned"

\* C1: two calls of runScenario on one Config return the same Results,
\* whatever the size of each call's worker pool and however the dispatcher,
\* the workers and the aggregating loop interleave.
C1_SameResults ==
    (run = 2 /\ ScenarioReturned) => results = got1

\* both calls done on MaxRuns trials of differing outcome, with pools of
\* different sizes
C1_Witness ==
    /\ run = 2
    /\ ScenarioReturned
    /\ workers1 # workerCount
    /\ results.attempts = MaxRuns
    /\ results.openingHandWins \in 1..(MaxRuns - 1)

\* no index is run twice and no index outside 0 .. runs-1 is run
RanAtMostOnce ==
    \A i \in DOMAIN ran : ran[i] <= (IF i \in 0..(cfg.runs - 1) THEN 1 ELSE 0)
\* every index of 0 .. runs-1 has been run once
AllRanOnce == \A i \in 0..(cfg.runs - 1) : ran[i] = 1

\* C2: in each call of runScenario every index of 0 .. runs-1 is in the end
\* received by a worker and run, once; at no time has an index been run
\* twice or an index outside 0 .. runs-1 been run.
C2_EveryTrialOnce ==
    /\ []RanAtMostOnce
    /\ <>(run = 1 /\ AllRanOnce /\ ScenarioReturned)
    /\ <>[](run = 2 /\ AllRanOnce /\ ScenarioReturned)

\* all MaxRuns indices run, the last results still in the workers' hands
C2_Witness ==
    /\ cfg.runs = MaxRuns
    /\ workerCount = MaxWorkers
    /\ AllRanOnce
    /\ \A w \in 1..workerCount : wpc[w] = "send"

RECURSIVE sumOver(_, _, _)
\* the sum of f(workerTrial(c, i)) for i in 0 .. n-1
sumOver(f(_), c, n) ==
    IF n <= 0 THEN 0 ELSE f(workerTrial(c, n - 1)) + sumOver(f, c, n - 1)

drawsOf(sim) == sim.drawsToWinCon
landsOf(sim) == sim.openingHandLands
winOf(sim) == IF sim.openingHandWin THEN 1 ELSE 0

\* C5: when runScenario returns, attempts = runs and the draw sum, the land
\* sum and the opening-hand win count are those of the trials 0 .. runs-1,
\* each counted once, in whatever order the results were sent.
C5_SumsOverAllTrials ==
    ScenarioReturned =>
        /\ results.attempts = cfg.runs
        /\ drawSum = sumOver(drawsOf, cfg, cfg.runs)
        /\ landSum = sumOver(landsOf, cfg, cfg.runs)
        /\ openingWinCount = sumOver(winOf, cfg, cfg.runs)

\* a return after results of differing outcome were sent out of index order
C5_Witness ==
    /\ ScenarioReturned
    /\ results.attempts = MaxRuns
    /\ drawSum > 0
    /\ openingWinCount > 0
    /\ \E k \in 1..(Len(order) - 1) : order[k] > order[k + 1]

\* C11: on each return of runSimulation (opening-hand win, win after draws,
\* library exhausted) openingHandLands is the number of lands among the
\* first 7 cards of the shuffled deck, whatever was drawn afterwards.
C11_OpeningLandsOfFirstSeven ==
    Returned =>
        /\ trial.path \in {"opening", "drawn", "exhausted"}
        /\ trial.ret.openingHandLands = landsIn(SubSeq(deck, 1, HandSize))

\* a win after draws that brought at least one more land into the hand
C11_Witness ==
    /\ Returned
    /\ trial.path = "drawn"
    /\ trial.ret.openingHandLands > 0
    /\ landsIn(handOf(trial)) > trial.ret.openingHandLands

\* the accumulators of the aggregating loop
accumulators == <<results, drawSum, landSum, openingWinCount>>

\* C12: every step that changes attempts, drawSum, landSum or
\* openingWinCount is a step of the loop receiving from the output channel
\* (or the caller starting the next call); no step of the dispatcher or of
\* a worker changes them.
C12_SingleConsumer ==
    [][(accumulators' # accumulators) => (Aggregator \/ Caller)]_vars

\* a result has been accumulated while the dispatcher is still sending and
\* every worker holds a result to send
C12_Witness ==
    /\ results.attempts >= 1
    /\ drawSum >= 1
    /\ dpc = "send"
    /\ workerCount = MaxWorkers
    /\ \A w \in 1..workerCount : wpc[w] = "send"

\* C13: with runs = 0 each call of runScenario returns, and what it returns
\* has attempts = 0 and every derived statistic zero (no quotient by zero
\* attempts is formed).
C13_ZeroRuns ==
    /\ []((ScenarioReturned /\ cfg.runs = 0) => results = ZeroResults)
    /\ (cfg.runs = 0) =>
           /\ <>(run = 1 /\ ScenarioReturned)
           /\ <>[](run = 2 /\ ScenarioReturned)

\* the second of two calls with runs = 0 and a full pool has returned
C13_Witness ==
    /\ cfg.runs = 0
    /\ run = 2
    /\ workerCount = MaxWorkers
    /\ ScenarioReturned
    /\ results.attempts = 0

\* a call of runScenario has ended: the dispatcher goroutine is done, every
\* worker has left its loop, and the aggregating loop has ended
Terminated ==
    /\ ScenarioReturned
    /\ dpc = "done"
    /\ \A w \in 1..workerCount : wpc[w] = "done"
    /\ jobs = <<>> /\ output = <<>>
    /\ ~panicked

\* C14: under fair scheduling of the goroutines each call of runScenario
\* with runs >= 1 ends, for every pool size, also when runs exceeds the
\* capacities of the jobs and output channels together: every worker
\* exits and the aggregating loop ends.
C14_Terminates ==
    (cfg.runs >= 1) =>
        /\ <>(run = 1 /\ Terminated)
        /\ <>[](run = 2 /\ Terminated)

\* more trials than both channels hold: output is full, a worker waits to
\* send its result, and jobs is full behind it
C14_Witness ==
    /\ cfg.runs > workerCount + OutputCap
    /\ Len(output) = OutputCap
    /\ Len(jobs) = workerCount
    /\ \A w \in 1..workerCount : wpc[w] = "send"

\* C15: jobs is closed only once all `runs` indices have been sent; output
\* is closed only once jobs is closed and every worker is done; no send
\* hits a closed channel; and the aggregating loop does not end while a
\* result is unsent or unreceived.
C15_CloseProtocol ==
    /\ jobsClosed => di = cfg.runs
    /\ outputClosed =>
          /\ jobsClosed
          /\ jobs = <<>>
          /\ \A w \in 1..workerCount : wpc[w] = "done"
    /\ ~panicked
    /\ ScenarioReturned =>
          /\ outputClosed
          /\ output = <<>>
          /\ Len(order) = cfg.runs
          /\ results.attempts = cfg.runs

\* output closed after the last of MaxRuns results was sent and before the
\* aggregating loop has received it
C15_Witness ==
    /\ cfg.runs = MaxRuns
    /\ workerCount = MaxWorkers
    /\ outputClosed
    /\ output # <<>>
    /\ apc = "recv"

\* C16: the Simulation a worker sends for index i is the one createDeck and
\* runSimulation give on a new generator seeded with simSeed(cfg.seed, i),
\* whichever worker received i and whatever that worker ran before; this
\* holds of each result in a worker's hands and of each in the channel.
C16_ResultOfIndexOnly ==
    /\ \A w \in 1..workerCount :
          wpc[w] = "send" => wsim[w] = workerTrial(cfg, widx[w])
    /\ \A k \in 1..Len(output) :
          output[k] = workerTrial(cfg, order[Len(order) - Len(output) + k])

\* the first worker holds the result of the last index after running an
\* earlier one, the second worker holds the result of the index between
C16_Witness ==
    /\ cfg.runs = MaxRuns
    /\ workerCount = 2
    /\ wpc[1] = "send" /\ widx[1] = MaxRuns - 1
    /\ wpc[2] = "send" /\ widx[2] = MaxRuns - 2
    /\ ran[0] = 1
    /\ wsim[1] # wsim[2]

\* runSimulation has been entered
InSimulation == tpc \in {"draw", "done"}

\* C17: from the split of the deck on, the hand followed by the library is
\* the shuffled deck in its order and len(hand) = 7 + drawCount; the
\* backing array the two slices share is never changed by an append; and
\* each draw moves the top card of the library, and only it, to the end of
\* the hand.
C17_HandThenLibraryIsDeck ==
    /\ [](InSimulation =>
            /\ handOf(trial) \o libraryOf(trial) = deck
            /\ trial.arr = deck
            /\ trial.handLen = HandSize + trial.drawCount)
    /\ [][(tpc = "draw" /\ libraryOf(trial) # <<>>) =>
            /\ handOf(trial') = Append(handOf(trial), Head(libraryOf(trial)))
            /\ libraryOf(trial') = Tail(libraryOf(trial))
            /\ trial'.drawCount = trial.drawCount + 1]_vars

\* in the loop after a draw, the card on top of the library differing
\* from the card just appended to the hand
C17_Witness ==
    /\ tpc = "draw"
    /\ trial.drawCount = 1
    /\ libraryOf(trial) # <<>>
    /\ Head(libraryOf(trial)) # handOf(trial)[trial.handLen]

\* C19: a trial on the deck of a Config validateConfig accepts returns from
\* one of the two winning returns of runSimulation, never from the one after
\* the loop, and its openingHandWin is true exactly when its drawsToWinCon
\* is 0.
C19_ValidConfigAlwaysWins ==
    (Returned /\ err = "nil") =>
        /\ Won(trial)
        /\ trial.path # "exhausted"
        /\ trial.ret.openingHandWin <=> (draws = 0)

\* an accepted Config whose trial wins on the last card of its library
C19_Witness ==
    /\ Returned
    /\ err = "nil"
    /\ trial.path = "drawn"
    /\ ~trial.ret.openingHandWin
    /\ draws = Len(deck) - HandSize
    /\ Len(libraryOf(trial)) = 0

\* C18: for one base seed, simSeed gives distinct derived seeds for
\* distinct trial indices.
C18_DistinctSeeds ==
    (seedPc \in {"run", "done"} /\ seedIn[1] = seedIn[3]
                                 /\ seedIn[2] # seedIn[4]) =>
        seedOut[1] # seedOut[2]

\* base seed -1 with indices 0 and MaxRuns: the sum wraps past 2^64 between
C18_Witness ==
    /\ seedPc = "done"
    /\ seedIn = <<-1, 0, -1, MaxRuns>>
    /\ seedOut[1] # seedOut[2]

\* baseSeed + simIndex = baseSeed' + simIndex' (mod 2^64)
SumsCoincide ==
    addU64(toU64(seedIn[1]), toU64(seedIn[2])) =
        addU64(toU64(seedIn[3]), toU64(seedIn[4]))

\* C20: whenever baseSeed + i = baseSeed' + i' (mod 2^64), simSeed gives
\* both pairs the same derived seed, and the two trials are the same; so
\* trial i + 1 under seed s is trial i under seed s + 1.
C20_SeedOfSumOnly ==
    (seedPc = "done" /\ SumsCoincide) =>
        /\ seedOut[1] = seedOut[2]
        /\ seedSims[1] = seedSims[2]

\* trial 1 under base seed -1 and trial 0 under base seed 0: the first sum
\* wraps to the second
C20_Witness ==
    /\ seedPc = "done"
    /\ seedIn = <<-1, 1, 0, 0>>
    /\ seedOut[1] = seedOut[2]
    /\ seedSims[1] = seedSims[2]

=============================================================================
